---------------------------- MODULE Spec2Model ----------------------------
(***************************************************************************)
(* A model of mdx97/tic-tac-toe (src/src/main.rs): the board, the turn     *)
(* flag, the freeze deadline, the SDL event queue and the main loop.       *)
(***************************************************************************)
EXTENDS Integers, Sequences, FiniteSets, TLC

(***************************************************************************)
(* Program constants (main.rs:12-33).                                      *)
(***************************************************************************)
BORDER_THICKNESS == 20

WINDOW_SIZE == 680

PLAYING_AREA_OFFSET == BORDER_THICKNESS * 2

PLAYING_AREA_SIZE == WINDOW_SIZE - (PLAYING_AREA_OFFSET * 2)

SQUARES == 4

SQUARE_SIZE == PLAYING_AREA_SIZE \div SQUARES

NEW_GAME_TIMEOUT == 2

(***************************************************************************)
(* Bounds of the model.                                                    *)
(***************************************************************************)
\* The wall clock (whole seconds) stops advancing at MaxTime.
MaxTime == 3

\* The most events that wait in the SDL event queue at once.
MaxQueue == 1

(***************************************************************************)
(* Values.                                                                 *)
(***************************************************************************)
\* Option<T>: None is the empty tuple, Some(v) the one-element tuple.
None == << >>

Some(v) == << v >>

\* enum Square { X, O, Empty }
Square == {"X", "O", "Empty"}

Cells == 0 .. (SQUARES * SQUARES) - 1

\* vec![Square::Empty; (SQUARES * SQUARES) as usize]
EmptyBoard == [s \in Cells |-> "Empty"]

\* The events of sdl2::event::Event the loop's match tells apart.
QuitEvent == [type |-> "Quit", keycode |-> "-", mouse_btn |-> "-", x |-> 0, y |-> 0]

KeyDown(k) == [type |-> "KeyDown", keycode |-> k, mouse_btn |-> "-", x |-> 0, y |-> 0]

MouseButtonDown(b, px, py) ==
    [type |-> "MouseButtonDown", keycode |-> "-", mouse_btn |-> b, x |-> px, y |-> py]

(***************************************************************************)
(* i32 arithmetic (main.rs:73-75): x and y are i32, and  x - OFFSET  leaves *)
(* the type's range for x below I32_MIN + OFFSET.  A build with overflow   *)
(* checks panics there, a build without them wraps around.                 *)
(***************************************************************************)
I32_MAX == 2147483647

I32_MIN == (0 - I32_MAX) - 1

\* Does a - b, for b >= 0, leave the range of i32?
SubOverflows(a, b) == a < I32_MIN + b

\* a - b modulo 2^32, for b >= 0, computed within the range of i32.
wrapping_sub(a, b) ==
    IF SubOverflows(a, b)
    THEN I32_MAX - (((I32_MIN + b) - a) - 1)
    ELSE a - b

(***************************************************************************)
(* get_square_from_coords (main.rs:73-82).                                 *)
(***************************************************************************)
\* Mutant: the left and top boundary test written  x < 0  instead of  x <= 0.
get_square_from_coords_lt(px, py) ==
    LET rx == wrapping_sub(px, PLAYING_AREA_OFFSET)
        ry == wrapping_sub(py, PLAYING_AREA_OFFSET)
    IN  IF rx < 0 \/ ry < 0 \/ rx >= SQUARE_SIZE * SQUARES \/ ry >= SQUARE_SIZE * SQUARES
        THEN None
        ELSE LET col == rx \div SQUARE_SIZE
                 row == ry \div SQUARE_SIZE
             IN  Some((row * SQUARES) + col)

\* Mutant: the right and bottom boundary test written  >  instead of  >=.
get_square_from_coords_gt(px, py) ==
    LET rx == wrapping_sub(px, PLAYING_AREA_OFFSET)
        ry == wrapping_sub(py, PLAYING_AREA_OFFSET)
    IN  IF rx <= 0 \/ ry <= 0 \/ rx > SQUARE_SIZE * SQUARES \/ ry > SQUARE_SIZE * SQUARES
        THEN None
        ELSE LET col == rx \div SQUARE_SIZE
                 row == ry \div SQUARE_SIZE
             IN  Some((row * SQUARES) + col)

get_square_from_coords(px, py) ==
    LET rx == wrapping_sub(px, PLAYING_AREA_OFFSET)
        ry == wrapping_sub(py, PLAYING_AREA_OFFSET)
    IN  IF rx <= 0 \/ ry <= 0 \/ rx >= SQUARE_SIZE * SQUARES \/ ry >= SQUARE_SIZE * SQUARES
        THEN None
        ELSE LET col == rx \div SQUARE_SIZE
                 row == ry \div SQUARE_SIZE
             IN  Some((row * SQUARES) + col)

(***************************************************************************)
(* The line selectors (main.rs:36-45): each maps (constant, i) to          *)
(* (row, col).                                                             *)
(***************************************************************************)
StraightLambda0(constant, i) == << constant, i >>

StraightLambda1(constant, i) == << i, constant >>

DiagonalLambda0(constant, i) == << i, i >>

DiagonalLambda1(constant, i) == << SQUARES - i - 1, i >>

STRAIGHT_LINE_LAMBDAS == << "straight0", "straight1" >>

DIAGONAL_LINE_LAMBDAS == << "diagonal0", "diagonal1" >>

\* The call through the function pointer  get_square(constant, i).
CallLambda(lambda, constant, i) ==
    CASE lambda = "straight0" -> StraightLambda0(constant, i)
      [] lambda = "straight1" -> StraightLambda1(constant, i)
      [] lambda = "diagonal0" -> DiagonalLambda0(constant, i)
      [] lambda = "diagonal1" -> DiagonalLambda1(constant, i)

\* get_square_flatten_index (main.rs:135-137)
get_square_flatten_index(sqs, row, col) == sqs[(row * SQUARES) + col]

\* The for loop of line_winner (main.rs:125-130), from iteration i on.
RECURSIVE LineLoop(_, _, _, _, _)
LineLoop(sqs, lambda, constant, line_square, i) ==
    IF i >= SQUARES
    THEN Some(line_square)
    ELSE LET square == CallLambda(lambda, constant, i)
         IN  IF get_square_flatten_index(sqs, square[1], square[2]) # line_square
             THEN None
             ELSE LineLoop(sqs, lambda, constant, line_square, i + 1)

\* Mutant: the for loop starts at 2, so the second square of the line is never compared.
line_winner_from_2(sqs, lambda, constant) ==
    LET start == CallLambda(lambda, constant, 0)
        line_square == get_square_flatten_index(sqs, start[1], start[2])
    IN  IF line_square = "Empty"
        THEN None
        ELSE LineLoop(sqs, lambda, constant, line_square, 2)

\* line_winner (main.rs:119-132)
line_winner(sqs, lambda, constant) ==
    LET start == CallLambda(lambda, constant, 0)
        line_square == get_square_flatten_index(sqs, start[1], start[2])
    IN  IF line_square = "Empty"
        THEN None
        ELSE LineLoop(sqs, lambda, constant, line_square, 1)

\* Mutant: the anti-diagonal is tried before the main diagonal.
DiagonalLoop_anti_first(sqs, l) ==
    LET anti == line_winner(sqs, DIAGONAL_LINE_LAMBDAS[2], 0)
    IN  IF anti # None THEN anti ELSE line_winner(sqs, DIAGONAL_LINE_LAMBDAS[1], 0)

\* The second loop of get_winner (main.rs:103-107), from lambda number l on.
RECURSIVE DiagonalLoop(_, _)
DiagonalLoop(sqs, l) ==
    IF l > Len(DIAGONAL_LINE_LAMBDAS)
    THEN None
    ELSE LET winner == line_winner(sqs, DIAGONAL_LINE_LAMBDAS[l], 0)
         IN  IF winner # None THEN winner ELSE DiagonalLoop(sqs, l + 1)

\* The first, nested loop of get_winner (main.rs:96-102), from (i, l) on.
RECURSIVE StraightLoop(_, _, _)
StraightLoop(sqs, i, l) ==
    IF i >= SQUARES
    THEN DiagonalLoop(sqs, 1)
    ELSE IF l > Len(STRAIGHT_LINE_LAMBDAS)
         THEN StraightLoop(sqs, i + 1, 1)
         ELSE LET winner == line_winner(sqs, STRAIGHT_LINE_LAMBDAS[l], i)
              IN  IF winner # None THEN winner ELSE StraightLoop(sqs, i, l + 1)

\* get_winner (main.rs:95-109)
get_winner(sqs) == StraightLoop(sqs, 0, 1)

\* Mutant: the deadline without the timeout added.
endgame_no_timeout(t) == Some(t)

\* endgame (main.rs:112-114): the new freeze deadline, t being Instant::now().
endgame(t) == Some(t + NEW_GAME_TIMEOUT)

\* Mutant: "some square is taken" instead of "no square is empty".
NoEmpty_some_taken(sqs) == \E s \in Cells : sqs[s] # "Empty"

\* !state.squares.iter().any(|s| *s == Square::Empty)  (main.rs:192)
NoEmpty(sqs) == ~ \E s \in Cells : sqs[s] = "Empty"

\* Mutant: the two marks swapped.
MarkOf_swapped(t) == IF t THEN "O" ELSE "X"

\* if state.turn { Square::X } else { Square::O }  (main.rs:180)
MarkOf(t) == IF t THEN "X" ELSE "O"

\* Mutant: the test for an empty square left out.
CanPlace_always(sqs, s) == TRUE

\* state.squares[square] == Square::Empty  (main.rs:179)
CanPlace(sqs, s) == sqs[s] = "Empty"

\* Mutant: >= instead of >.
Expired_at_deadline(t, until) == t >= until

\* Mutant: < instead of >.
Expired_before(t, until) == t < until

\* Instant::now() > state.freeze_until.unwrap()  (main.rs:162), t being Instant::now().
Expired(t, until) == t > until

(***************************************************************************)
(* State.                                                                  *)
(***************************************************************************)
VARIABLES
    squares,       \* state.squares
    turn,          \* state.turn
    freeze_until,  \* state.freeze_until
    now,           \* the wall clock read by Instant::now(), in seconds
    pump,          \* the events waiting in the SDL event queue, oldest first
    pc,            \* "loop": top of the loop; "poll": in the event loop; "exit"
    placed,        \* history: successful placements since the last GameState::default()
    last           \* history: what the last step of the program did or printed

vars == << squares, turn, freeze_until, now, pump, pc, placed, last >>

\* The pixel points of the mouse events the environment delivers.
CellCentre(s) ==
    << PLAYING_AREA_OFFSET + (SQUARE_SIZE * (s % SQUARES)) + (SQUARE_SIZE \div 2),
       PLAYING_AREA_OFFSET + (SQUARE_SIZE * (s \div SQUARES)) + (SQUARE_SIZE \div 2) >>

ClickCells == {0, 1, 2, 3, 4, 5, 6, 7}

ClickPoints == {CellCentre(s) : s \in ClickCells} \cup {<< 0, 0 >>}

Events ==
    {QuitEvent, KeyDown("Escape"), KeyDown("A")}
        \cup {MouseButtonDown("Left", p[1], p[2]) : p \in ClickPoints}
        \cup {MouseButtonDown("Right", CellCentre(0)[1], CellCentre(0)[2])}

\* GameState::default() (main.rs:53-61) and the start of main (main.rs:158).
Init ==
    /\ squares = EmptyBoard
    /\ turn = TRUE
    /\ freeze_until = None
    /\ now = 0
    /\ pump = << >>
    /\ pc = "loop"
    /\ placed = 0
    /\ last = "start"

(***************************************************************************)
(* The environment: the clock advances, events arrive in the queue.        *)
(***************************************************************************)
ClockTick ==
    /\ pc # "exit"
    /\ now < MaxTime
    /\ now' = now + 1
    /\ UNCHANGED << squares, turn, freeze_until, pump, pc, placed, last >>

Arrive ==
    /\ pc # "exit"
    /\ Len(pump) < MaxQueue
    /\ \E e \in Events : pump' = Append(pump, e)
    /\ UNCHANGED << squares, turn, freeze_until, now, pc, placed, last >>

\* Mutant: every mouse button counts.
IsLeftClick_any_button(e) == e.type = "MouseButtonDown"

\* Is e a press of the left mouse button?
IsLeftClick(e) == e.type = "MouseButtonDown" /\ e.mouse_btn = "Left"

\* Mutant: every frozen iteration that has not expired calls endgame again.
FrozenTick_extends ==
    /\ pc = "loop"
    /\ freeze_until # None
    /\ IF Expired(now, freeze_until[1])
       THEN /\ squares' = EmptyBoard
            /\ turn' = TRUE
            /\ freeze_until' = None
            /\ placed' = 0
            /\ last' = "reset"
            /\ UNCHANGED pump
       ELSE /\ pump' = << >>
            /\ freeze_until' = endgame(now)
            /\ last' = "drain"
            /\ UNCHANGED << squares, turn, placed >>
    /\ UNCHANGED << now, pc >>

\* Mutant: the reset empties the board and leaves the turn.
FrozenTick_keeps_turn ==
    /\ pc = "loop"
    /\ freeze_until # None
    /\ IF Expired(now, freeze_until[1])
       THEN /\ squares' = EmptyBoard
            /\ freeze_until' = None
            /\ placed' = 0
            /\ last' = "reset"
            /\ UNCHANGED << pump, turn >>
       ELSE /\ pump' = << >>
            /\ last' = "drain"
            /\ UNCHANGED << squares, turn, freeze_until, placed >>
    /\ UNCHANGED << now, pc >>

(***************************************************************************)
(* One iteration of the loop that starts frozen (main.rs:161-170).         *)
(***************************************************************************)
FrozenTick ==
    /\ pc = "loop"
    /\ freeze_until # None
    /\ IF Expired(now, freeze_until[1])
       THEN /\ squares' = EmptyBoard
            /\ turn' = TRUE
            /\ freeze_until' = None
            /\ placed' = 0
            /\ last' = "reset"
            /\ UNCHANGED pump
       ELSE /\ pump' = << >>
            /\ last' = (IF \E k \in 1 .. Len(pump) : IsLeftClick(pump[k])
                        THEN "drained click"
                        ELSE "drain")
            /\ UNCHANGED << squares, turn, freeze_until, placed >>
    /\ UNCHANGED << now, pc >>

(***************************************************************************)
(* The event loop of an iteration that starts active (main.rs:171-187):    *)
(* poll_iter hands over the oldest waiting event.                          *)
(***************************************************************************)
\* Mutant: the quit arm goes on with the event loop instead of returning.
MatchQuit_continues(event) ==
    /\ \/ event.type = "Quit"
       \/ event.type = "KeyDown" /\ event.keycode = "Escape"
    /\ pc' = "poll"
    /\ last' = "quit"
    /\ UNCHANGED << squares, turn, freeze_until, placed >>

MatchQuit(event) ==
    /\ \/ event.type = "Quit"
       \/ event.type = "KeyDown" /\ event.keycode = "Escape"
    /\ pc' = "exit"
    /\ last' = "quit"
    /\ UNCHANGED << squares, turn, freeze_until, placed >>

\* Mutant: the turn is not flipped after a placement.
MatchLeftButton_keeps_turn(event) ==
    /\ IsLeftClick(event)
    /\ LET square == get_square_from_coords(event.x, event.y)
       IN  IF square # None
           THEN IF CanPlace(squares, square[1])
                THEN /\ squares' = [squares EXCEPT ![square[1]] = MarkOf(turn)]
                     /\ placed' = placed + 1
                     /\ last' = "placed"
                     /\ UNCHANGED turn
                ELSE /\ last' = "occupied"
                     /\ UNCHANGED << squares, turn, placed >>
           ELSE /\ last' = "outside"
                /\ UNCHANGED << squares, turn, placed >>
    /\ pc' = "poll"
    /\ UNCHANGED freeze_until

MatchLeftButton(event) ==
    /\ IsLeftClick(event)
    /\ \/ /\ LET square == get_square_from_coords(event.x, event.y)
             IN  IF square # None
                 THEN IF CanPlace(squares, square[1])
                      THEN /\ squares' = [squares EXCEPT ![square[1]] = MarkOf(turn)]
                           /\ turn' = ~turn
                           /\ placed' = placed + 1
                           /\ last' = "placed"
                      ELSE /\ last' = "occupied"
                           /\ UNCHANGED << squares, turn, placed >>
                 ELSE /\ last' = "outside"
                      /\ UNCHANGED << squares, turn, placed >>
          /\ pc' = "poll"
       \* "attempt to subtract with overflow": the thread panics, the process ends.
       \/ /\ \/ SubOverflows(event.x, PLAYING_AREA_OFFSET)
             \/ SubOverflows(event.y, PLAYING_AREA_OFFSET)
          /\ pc' = "exit"
          /\ last' = "panic"
          /\ UNCHANGED << squares, turn, placed >>
    /\ UNCHANGED freeze_until

MatchOther(event) ==
    /\ ~ (event.type = "Quit")
    /\ ~ (event.type = "KeyDown" /\ event.keycode = "Escape")
    /\ ~ IsLeftClick(event)
    /\ pc' = "poll"
    /\ last' = "ignored"
    /\ UNCHANGED << squares, turn, freeze_until, placed >>

PollEvent ==
    /\ pc \in {"loop", "poll"}
    /\ freeze_until = None
    /\ pump # << >>
    /\ pump' = Tail(pump)
    /\ \/ MatchQuit(Head(pump))
       \/ MatchLeftButton(Head(pump))
       \/ MatchOther(Head(pump))
    /\ UNCHANGED now

(***************************************************************************)
(* The end of an active iteration (main.rs:189-195): poll_iter is          *)
(* exhausted, the board is evaluated.  Rendering reads the state only.     *)
(***************************************************************************)
Evaluate ==
    /\ pc \in {"loop", "poll"}
    /\ freeze_until = None
    /\ pump = << >>
    /\ LET winner == get_winner(squares)
       IN  IF winner # None
           THEN /\ last' = (IF winner[1] = "X" THEN "Red wins!" ELSE "Blue wins!")
                /\ freeze_until' = endgame(now)
           ELSE IF NoEmpty(squares)
                THEN /\ last' = "Draw!"
                     /\ freeze_until' = endgame(now)
                ELSE /\ last' = "no outcome"
                     /\ UNCHANGED freeze_until
    /\ pc' = "loop"
    /\ UNCHANGED << squares, turn, now, pump, placed >>

Next ==
    \/ ClockTick
    \/ Arrive
    \/ FrozenTick
    \/ PollEvent
    \/ Evaluate

Spec == Init /\ [][Next]_vars

(***************************************************************************)
(* get_winner and the evaluation on any board, reachable or not: the       *)
(* event loop has just run out on a board of few marks or few empties, and the  *)
(* program evaluates it (main.rs:189-195).                                 *)
(***************************************************************************)
\* Boards with at most MaxMarks marks are inputs, and so is every full board.
MaxMarks == 4

\* The board that holds the marks f on the squares of S and nothing elsewhere.
BoardMarkedOn(S, f) == [s \in Cells |-> IF s \in S THEN f[s] ELSE "Empty"]

Marks(sqs) == Cardinality({s \in Cells : sqs[s] # "Empty"})

InitEval ==
    /\ \E S \in SUBSET Cells :
          /\ \/ Cardinality(S) <= MaxMarks
             \/ S = Cells
          /\ \E f \in [S -> {"X", "O"}] : squares = BoardMarkedOn(S, f)
    /\ turn = TRUE
    /\ freeze_until = None
    /\ now = 0
    /\ pump = << >>
    /\ pc = "poll"
    /\ placed = Marks(squares)
    /\ last = "start"

NextEval == Evaluate

SpecEval == InitEval /\ [][NextEval]_vars

(***************************************************************************)
(* get_square_from_coords on pixel points on and around every boundary of  *)
(* the grid: one event waits in the queue of an active game, and the       *)
(* program dispatches it (main.rs:172-187).                                *)
(***************************************************************************)
\* A game after two placements: X on square 0, O on square 5.
BoardAfterTwo == [EmptyBoard EXCEPT ![0] = "X", ![5] = "O"]

\* How far the sampled pixel coordinates lie from the boundaries they surround.
MaxAway == 1

GridLines == {PLAYING_AREA_OFFSET + (SQUARE_SIZE * k) : k \in 0 .. SQUARES}

Coords ==
    {g + d : g \in GridLines, d \in (0 - MaxAway) .. MaxAway}
        \cup {CellCentre(s)[1] : s \in 0 .. SQUARES - 1}
        \cup {0 - 1, 0, WINDOW_SIZE - 1}

CoordEvents ==
    {QuitEvent, KeyDown("Escape"), KeyDown("A")}
        \cup {MouseButtonDown(b, px, py) : b \in {"Left", "Right"}, px \in Coords, py \in Coords}

InitCoords ==
    /\ squares \in {EmptyBoard, BoardAfterTwo}
    /\ turn = TRUE
    /\ freeze_until = None
    /\ now = 0
    /\ pump \in {<< e >> : e \in CoordEvents}
    /\ pc = "loop"
    /\ placed = Marks(squares)
    /\ last = "start"

NextCoords == PollEvent

SpecCoords == InitCoords /\ [][NextCoords]_vars

(***************************************************************************)
(* The properties.                                                         *)
(***************************************************************************)
Players == {"X", "O"}

RowOf(r) == {(r * SQUARES) + c : c \in 0 .. SQUARES - 1}

ColOf(c) == {(r * SQUARES) + c : r \in 0 .. SQUARES - 1}

MainDiagonal == {(k * SQUARES) + k : k \in 0 .. SQUARES - 1}

AntiDiagonal == {(k * SQUARES) + (SQUARES - 1 - k) : k \in 0 .. SQUARES - 1}

Lines ==
    {RowOf(r) : r \in 0 .. SQUARES - 1}
        \cup {ColOf(c) : c \in 0 .. SQUARES - 1}
        \cup {MainDiagonal, AntiDiagonal}

\* Some row, some column or one of the two diagonals holds p's mark only.
HasLine(sqs, p) == \E L \in Lines : \A s \in L : sqs[s] = p

AnyLine(sqs) == \E p \in Players : HasLine(sqs, p)

Full(sqs) == \A s \in Cells : sqs[s] # "Empty"

WinReports == {"Red wins!", "Blue wins!"}

EvalReports == WinReports \cup {"Draw!", "no outcome"}

\* A step that hands the oldest waiting event to the match of an active iteration.
DispatchStep ==
    /\ freeze_until = None
    /\ pc \in {"loop", "poll"}
    /\ pump # << >>
    /\ pump' = Tail(pump)

\* A step that ends an active iteration without quitting: the evaluation.
EndOfActiveTick ==
    /\ freeze_until = None
    /\ pc \in {"loop", "poll"}
    /\ pc' = "loop"
    /\ now' = now
    /\ pump' = pump

\* A step of the program at the top of a frozen iteration.
FrozenStep ==
    /\ freeze_until # None
    /\ pc = "loop"
    /\ now' = now
    /\ Len(pump') <= Len(pump)

\* The drawn rectangle of square s (main.rs:203) holds the pixel point (px, py).
InRect(s, px, py) ==
    LET col == s % SQUARES
        row == s \div SQUARES
    IN  /\ px >= PLAYING_AREA_OFFSET + (SQUARE_SIZE * col)
        /\ px < PLAYING_AREA_OFFSET + (SQUARE_SIZE * (col + 1))
        /\ py >= PLAYING_AREA_OFFSET + (SQUARE_SIZE * row)
        /\ py < PLAYING_AREA_OFFSET + (SQUARE_SIZE * (row + 1))

\* C1, as stated: for every board and each player p, get_winner returns Some(p)
\* if and only if some row, column or diagonal holds p's mark only, and None if
\* and only if neither player has such a line.
C1_Original ==
    /\ \A p \in Players : (get_winner(squares) = Some(p)) <=> HasLine(squares, p)
    /\ (get_winner(squares) = None) <=> ~ AnyLine(squares)

\* C1, amended: for every board, get_winner returns None if and only if neither
\* player has a complete line, and Some(p) only if p has one (so exactly p when
\* p alone has one); the evaluation prints the win of a player who has a line.
C1_WinnerHasLine ==
    /\ LET winner == get_winner(squares)
       IN  /\ (winner = None) <=> ~ AnyLine(squares)
           /\ \A p \in Players : (winner = Some(p)) => HasLine(squares, p)
           /\ \A p \in Players :
                (HasLine(squares, p) /\ \A q \in Players \ {p} : ~ HasLine(squares, q))
                    => winner = Some(p)
    /\ (last = "Red wins!") => HasLine(squares, "X")
    /\ (last = "Blue wins!") => HasLine(squares, "O")

\* C1's case: a board on which both players hold a complete line was evaluated.
C1_Witness ==
    /\ last \in WinReports
    /\ HasLine(squares, "X")
    /\ HasLine(squares, "O")

\* C2: the evaluation reports a draw exactly when no line is won and no square
\* is empty, no outcome when no line is won and a square is empty, and a win,
\* never a draw, on a full board that holds a won line.
C2_DrawExactly ==
    (last \in EvalReports) =>
        /\ (last = "Draw!") <=> (~ AnyLine(squares) /\ Full(squares))
        /\ (last = "no outcome") <=> (~ AnyLine(squares) /\ ~ Full(squares))
        /\ (last \in WinReports) <=> AnyLine(squares)
        /\ (freeze_until # None) <=> (last # "no outcome")

\* C2's case: a full board without a won line was evaluated and reported a draw.
C2_Witness ==
    /\ last = "Draw!"
    /\ Full(squares)
    /\ ~ AnyLine(squares)
    /\ freeze_until # None

C4_Original == [][FrozenStep => (pump' = << >>)]_vars

\* C5: the deadline is left only on an iteration at which the current time is
\* strictly later than it, and that iteration leaves the deadline unset, every
\* square empty and X to move.
C5_ResetOnlyAfterDeadline ==
    [][(freeze_until # None /\ freeze_until' # freeze_until) =>
            /\ now > freeze_until[1]
            /\ freeze_until' = None
            /\ squares' = EmptyBoard
            /\ turn' = TRUE]_vars

\* C5's case: a game that X won (O was to move) has been reset after its deadline.
C5_Witness ==
    /\ last = "reset"
    /\ freeze_until = None
    /\ squares = EmptyBoard
    /\ turn = TRUE
    /\ now > NEW_GAME_TIMEOUT

\* A left click that places nothing: outside the playing area or on a taken square.
RejectedClick ==
    /\ DispatchStep
    /\ IsLeftClick(Head(pump))
    /\ LET square == get_square_from_coords(Head(pump).x, Head(pump).y)
       IN  square = None \/ squares[square[1]] # "Empty"

\* C6: after k successful placements of a game the next mark placed is X if k
\* is even and O if k is odd; a rejected click places nothing, does not count
\* and leaves the turn.
C6_TurnAlternates ==
    [][/\ \A s \in Cells :
            (squares[s] = "Empty" /\ squares'[s] # "Empty") =>
                /\ squares'[s] = (IF placed % 2 = 0 THEN "X" ELSE "O")
                /\ placed' = placed + 1
                /\ turn' = (placed' % 2 = 0)
       /\ RejectedClick => (squares' = squares /\ turn' = turn /\ placed' = placed)]_vars

\* C6's case: the third placement of a game has just been made, with X's mark.
C6_Witness ==
    /\ last = "placed"
    /\ placed = 3
    /\ Cardinality({s \in Cells : squares[s] = "X"}) = 2
    /\ Cardinality({s \in Cells : squares[s] = "O"}) = 1
    /\ turn = FALSE

\* C7: a left click on a taken square leaves every square, the turn and the
\* deadline as they were, each time it is dispatched.
C7_OccupiedClickNoOp ==
    [][(/\ DispatchStep
        /\ IsLeftClick(Head(pump))
        /\ get_square_from_coords(Head(pump).x, Head(pump).y) # None
        /\ squares[get_square_from_coords(Head(pump).x, Head(pump).y)[1]] # "Empty")
            => (squares' = squares /\ turn' = turn /\ freeze_until' = freeze_until)]_vars

\* C7's case: a left click on a taken square has just been dispatched.
C7_Witness ==
    /\ last = "occupied"
    /\ placed > 0
    /\ freeze_until = None

\* C8, as stated: every pixel point in the drawn rectangle of square s is mapped
\* to s, so a left click there on the empty square s marks it.
C8_Original ==
    [][\A s \in Cells :
          (/\ DispatchStep
           /\ IsLeftClick(Head(pump))
           /\ InRect(s, Head(pump).x, Head(pump).y))
              => /\ get_square_from_coords(Head(pump).x, Head(pump).y) = Some(s)
                 /\ (squares[s] = "Empty") => (squares'[s] = MarkOf(turn))]_vars

C10_FrozenImmutable ==
    [][/\ (freeze_until # None /\ ~ (now > freeze_until[1])) =>
             (squares' = squares /\ turn' = turn /\ freeze_until' = freeze_until)
       /\ (freeze_until # None) => (freeze_until' \in {freeze_until, None})
       /\ (freeze_until # None /\ freeze_until' = None) => (squares' = EmptyBoard)]_vars

\* C10's case: a left click was drained by a frozen iteration, and the board
\* still holds the finished game.
C10_Witness ==
    /\ last = "drained click"
    /\ freeze_until # None
    /\ pump = << >>
    /\ AnyLine(squares)

(***************************************************************************)
(* A burst of events: the first iteration of a new game finds up to        *)
(* MaxBurst events waiting, and dispatches them (main.rs:171-195).         *)
(***************************************************************************)
MaxBurst == 3

\* The sequences of 1 to n events.
RECURSIVE Bursts(_)
Bursts(n) ==
    IF n <= 0
    THEN {}
    ELSE {<< e >> : e \in Events}
            \cup {Append(b, e) : b \in Bursts(n - 1), e \in Events}

InitBurst ==
    /\ squares = EmptyBoard
    /\ turn = TRUE
    /\ freeze_until = None
    /\ now = 0
    /\ pump \in Bursts(MaxBurst)
    /\ pc = "loop"
    /\ placed = 0
    /\ last = "start"

NextBurst ==
    \/ PollEvent
    \/ Evaluate

SpecBurst == InitBurst /\ [][NextBurst]_vars

\* Is e a quit request or a press of the Escape key?
IsQuit(e) == e.type = "Quit" \/ (e.type = "KeyDown" /\ e.keycode = "Escape")

\* C11: a quit or Escape event dispatched by an active iteration ends the loop
\* at that event: it is the oldest waiting event (the earlier ones have been
\* dispatched), the events behind it stay in the queue, the board, the turn and
\* the deadline are as the earlier events left them, and no step follows.
C11_QuitEndsLoop ==
    /\ [][(DispatchStep /\ IsQuit(Head(pump))) =>
            /\ pc' = "exit"
            /\ squares' = squares
            /\ turn' = turn
            /\ freeze_until' = freeze_until]_vars
    /\ [][(pc' = "exit") => (DispatchStep /\ IsQuit(Head(pump)))]_vars
    /\ [][pc # "exit"]_vars
    /\ [](pc = "exit" => (freeze_until = None /\ last = "quit" /\ Marks(squares) = placed))

\* C11's case: a left click was placed, the quit behind it ended the loop, and
\* the left click behind the quit waits for ever; nothing was evaluated.
C11_Witness ==
    /\ pc = "exit"
    /\ last = "quit"
    /\ placed = 1
    /\ squares[0] = "X"
    /\ Len(pump) = 1
    /\ IsLeftClick(pump[1])
    /\ get_square_from_coords(pump[1].x, pump[1].y) = Some(1)
    /\ squares[1] = "Empty"
    /\ freeze_until = None

(***************************************************************************)
(* The program under fair scheduling: the loop keeps iterating (a frozen   *)
(* iteration that can run does run) and the wall clock keeps advancing,    *)
(* up to MaxTime.                                                          *)
(***************************************************************************)
SpecLive == Init /\ [][Next]_vars /\ WF_vars(ClockTick) /\ WF_vars(FrozenTick)

\* C12: every frozen state (whose deadline the clock can pass) is followed by
\* an active state with every square empty and X to move.
C12_FrozenLeadsToNewGame ==
    (freeze_until # None /\ freeze_until[1] < MaxTime)
        ~> (freeze_until = None /\ squares = EmptyBoard /\ turn = TRUE /\ pc = "loop")

\* C12's case: a game was won, frozen and reset as soon as its deadline had
\* passed, and the loop is at the top of the first iteration of the next game.
C12_Witness ==
    /\ last = "reset"
    /\ now = NEW_GAME_TIMEOUT + 1
    /\ freeze_until = None
    /\ squares = EmptyBoard
    /\ turn = TRUE
    /\ placed = 0
    /\ pc = "loop"

\* The lines in the order of the specification: the rows from 0 up, the columns
\* from 0 up, the main diagonal, the anti-diagonal.
SpecOrder ==
    [k \in 1 .. (2 * SQUARES) + 2 |->
        IF k <= SQUARES THEN RowOf(k - 1)
        ELSE IF k <= 2 * SQUARES THEN ColOf(k - SQUARES - 1)
        ELSE IF k = (2 * SQUARES) + 1 THEN MainDiagonal
        ELSE AntiDiagonal]

\* The mark of the first won line of SpecOrder from place k on, or None.
RECURSIVE FirstWonFrom(_, _)
FirstWonFrom(sqs, k) ==
    IF k > Len(SpecOrder)
    THEN None
    ELSE IF \E p \in Players : \A s \in SpecOrder[k] : sqs[s] = p
         THEN Some(sqs[CHOOSE s \in SpecOrder[k] : TRUE])
         ELSE FirstWonFrom(sqs, k + 1)

\* C13: on every board get_winner returns the mark of the first won line in the
\* order rows, columns, main diagonal, anti-diagonal, although it visits row 0,
\* column 0, row 1, column 1 and so on; the win printed is that mark's.
C13_SameAsSpecOrder ==
    /\ get_winner(squares) = FirstWonFrom(squares, 1)
    /\ (last = "Red wins!") => (FirstWonFrom(squares, 1) = Some("X"))
    /\ (last = "Blue wins!") => (FirstWonFrom(squares, 1) = Some("O"))

\* C13's case: column 0 and row 1 are both won (the code meets column 0 first,
\* the specified order row 1), row 0 is not, and the win has been printed.
C13_Witness ==
    /\ last \in WinReports
    /\ \A s \in ColOf(0) \cup RowOf(1) : squares[s] = "X"
    /\ \E s \in RowOf(0) : squares[s] = "O"

\* A step of the program that polls a quit or Escape event: it takes the oldest
\* events out of the queue, a quit among them.
PollsQuit ==
    /\ now' = now
    /\ pc # "exit"
    /\ Len(pump') < Len(pump)
    /\ \E k \in 1 .. (Len(pump) - Len(pump')) : IsQuit(pump[k])

\* C14, as stated: whenever a quit or Escape event is polled, in an active or in
\* a frozen iteration, the program ends on that iteration.
C14_Original == [][PollsQuit => (pc' = "exit")]_vars

\* C14, amended: a quit or Escape event polled by an active iteration ends the
\* program on that iteration; one polled by a frozen iteration is drained with
\* the other events, and the program goes on, frozen, with the same board.
C14_QuitEndsActiveOnly ==
    [][PollsQuit =>
          IF freeze_until = None
          THEN pc' = "exit"
          ELSE /\ pc' = "loop"
               /\ pump' = << >>
               /\ freeze_until' = freeze_until
               /\ squares' = squares
               /\ turn' = turn]_vars

\* C14's case: a quit polled by an active iteration, on an empty board after
\* the clock has passed NEW_GAME_TIMEOUT, has ended the program.
C14_Witness ==
    /\ pc = "exit"
    /\ last = "quit"
    /\ squares = EmptyBoard
    /\ now > NEW_GAME_TIMEOUT
    /\ pump = << >>

\* C15: a left click of an active iteration on an empty square changes that
\* square, and no other, to the mark of the player to move (X when turn is
\* true), flips the turn and leaves the deadline unset; only the evaluation at
\* the end of the iteration sets it.
C15_PlacementFrame ==
    /\ [][\A s \in Cells :
            (/\ DispatchStep
             /\ IsLeftClick(Head(pump))
             /\ get_square_from_coords(Head(pump).x, Head(pump).y) = Some(s)
             /\ squares[s] = "Empty")
                => /\ squares'[s] = (IF turn THEN "X" ELSE "O")
                   /\ \A o \in Cells \ {s} : squares'[o] = squares[o]
                   /\ turn' = ~turn
                   /\ freeze_until' = None
                   /\ pc' = "poll"]_vars
    /\ [][(freeze_until = None /\ freeze_until' # None) => EndOfActiveTick]_vars

\* C15's case: O has just marked square 5, which completes nothing, after X
\* took square 0.
C15_Witness ==
    /\ last = "placed"
    /\ placed = 2
    /\ squares = BoardAfterTwo
    /\ turn = TRUE
    /\ freeze_until = None
    /\ pc = "poll"

\* C16: in an active iteration an event that is neither a quit request, nor
\* Escape, nor a press of the left button leaves the board and the turn, and
\* does not end the loop.
C16_OtherEventsIgnored ==
    [][(DispatchStep /\ ~ IsQuit(Head(pump))
          /\ ~ (Head(pump).type = "MouseButtonDown" /\ Head(pump).mouse_btn = "Left"))
            => /\ squares' = squares
               /\ turn' = turn
               /\ freeze_until' = freeze_until
               /\ placed' = placed
               /\ pc' = "poll"]_vars

\* C16's case: an event of another kind (the right button on the empty square
\* 0, or the key A) has just been dispatched in a running game.
C16_Witness ==
    /\ last = "ignored"
    /\ squares[0] = "Empty"
    /\ placed = 1
    /\ pc = "poll"

CountOf(sqs, p) == Cardinality({s \in Cells : sqs[s] = p})

\* C18: in every reachable state X has as many marks as O or one more, and X
\* is to move exactly when the two counts are equal.
C18_CountsAndTurn ==
    /\ CountOf(squares, "X") - CountOf(squares, "O") \in {0, 1}
    /\ turn <=> (CountOf(squares, "X") = CountOf(squares, "O"))

\* C18's case: five placements have been made, X has three marks, O two, and O
\* is to move.
C18_Witness ==
    /\ placed = 5
    /\ CountOf(squares, "X") = 3
    /\ CountOf(squares, "O") = 2
    /\ turn = FALSE

\* C19: a square that holds a mark keeps it in every step but the reset at the
\* expiry of the freeze, which empties every square at once.
C19_MarksStay ==
    [][\/ \A s \in Cells : (squares[s] # "Empty") => (squares'[s] = squares[s])
       \/ /\ freeze_until # None
          /\ now > freeze_until[1]
          /\ freeze_until' = None
          /\ squares' = EmptyBoard]_vars

\* C19's case: after X on 0 and O on 1 both squares were clicked again or
\* others were played, and the two marks are still there in a later placement.
C19_Witness ==
    /\ squares[0] = "X"
    /\ squares[1] = "O"
    /\ placed = 4
    /\ last = "occupied"

(***************************************************************************)
(* get_square_from_coords on any i32 coordinates: one mouse event waits in *)
(* the queue of an active game, with coordinates at the ends of the range  *)
(* of i32, below zero and around the playing area.                         *)
(***************************************************************************)
WideCoords ==
    {I32_MIN, I32_MIN + PLAYING_AREA_OFFSET - 1, I32_MIN + PLAYING_AREA_OFFSET,
     0 - WINDOW_SIZE, 0 - 1, 0, I32_MAX - 1, I32_MAX}
        \cup {PLAYING_AREA_OFFSET + d : d \in {0, 1}}
        \cup {PLAYING_AREA_OFFSET + PLAYING_AREA_SIZE + d : d \in {0 - 1, 0, 1}}
        \cup {CellCentre(s)[1] : s \in 0 .. SQUARES - 1}

WideEvents ==
    {QuitEvent, KeyDown("A")}
        \cup {MouseButtonDown(b, px, py) :
                b \in {"Left", "Right"}, px \in WideCoords, py \in WideCoords}

InitWide ==
    /\ squares \in {EmptyBoard, BoardAfterTwo}
    /\ turn = TRUE
    /\ freeze_until = None
    /\ now = 0
    /\ pump \in {<< e >> : e \in WideEvents}
    /\ pc = "loop"
    /\ placed = Marks(squares)
    /\ last = "start"

NextWide == PollEvent

SpecWide == InitWide /\ [][NextWide]_vars

LambdaNames == {"straight0", "straight1", "diagonal0", "diagonal1"}

\* C17: the board always has SQUARES * SQUARES squares, numbered from 0;
\* get_square_from_coords gives None or a square of the board for the
\* coordinates of every waiting mouse event; and every (row, col) of the line
\* selectors, for constant and i below SQUARES, lies on the board.
C17_IndicesInRange ==
    /\ DOMAIN squares = 0 .. (SQUARES * SQUARES) - 1
    /\ \A k \in 1 .. Len(pump) :
          (pump[k].type = "MouseButtonDown") =>
              LET got == get_square_from_coords(pump[k].x, pump[k].y)
              IN  got = None \/ (got[1] >= 0 /\ got[1] < SQUARES * SQUARES)
    /\ \A lambda \in LambdaNames : \A constant \in 0 .. SQUARES - 1 : \A i \in 0 .. SQUARES - 1 :
          LET square == CallLambda(lambda, constant, i)
          IN  /\ square[1] >= 0 /\ square[1] < SQUARES
              /\ square[2] >= 0 /\ square[2] < SQUARES
              /\ (square[1] * SQUARES) + square[2] \in DOMAIN squares

\* C17's case: a left click has marked the last square of the board, the
\* highest index get_square_from_coords gives.
C17_Witness ==
    /\ last = "placed"
    /\ squares[(SQUARES * SQUARES) - 1] = "X"
    /\ Marks(squares) = placed
    /\ pump = << >>

=============================================================================
